---- MODULE Spec2Model ----
(***************************************************************************)
(* Model of the Training Impact Dashboard (src/mock_dash.py): the dataset  *)
(* provider load_data, the metrics engine calculate_metrics with its       *)
(* MetricComparison value object, and the script main that Streamlit       *)
(* re-runs on every widget interaction; and of the metric selector of the  *)
(* button-driven front-end (src/mock_dash_v2.py, update_graphs).           *)
(*                                                                         *)
(* Units.  Months_Retained and Productivity_Rating carry one decimal in    *)
(* the source; the table stores them in tenths (12.0 months is 120, a      *)
(* rating of 4.7 is 47).  Every quotient the code computes is kept as an   *)
(* exact fraction <<n, d>> in lowest terms with d > 0, in the source's     *)
(* units (percent, rating points, days, dollars).                          *)
(***************************************************************************)
EXTENDS Integers, Sequences, FiniteSets, TLC

VARIABLES
    cached,          \* the st.cache_data entry of load_data
    df,              \* main's table after the last run's calculate_metrics call
    min_months,      \* slider value (tenths of a month)
    highlight_group, \* selectbox value
    show_details,    \* checkbox value
    frame,           \* the locals of the last calculate_metrics call
    metrics,         \* what the last calculate_metrics call returned
    page,            \* what the last run of main put on the page
    prev,            \* the run before the last: its slider value, locals and result
    calls,           \* calculate_metrics calls in progress on the table df, one per caller
    dash             \* the page of the button-driven front-end (src/mock_dash_v2.py)

vars == <<cached, df, min_months, highlight_group, show_details, frame, metrics, page,
          prev, calls, dash>>

\* ------------------------------------------------------------------ bounds
MaxRows == 3
MaxClicks == 4

\* --------------------------------------------------------------- constants
RETENTION_THRESHOLD == 120
COST_PER_HIRE == 1750
TRAINING_COST_PER_PERSON == 300

None == [is_none |-> TRUE]

\* ------------------------------------------------- exact quotient arithmetic
Abs(x) == IF x < 0 THEN -x ELSE x

RECURSIVE GCD(_, _)
GCD(a, b) == IF b = 0 THEN a ELSE GCD(b, a % b)

\* n / d in floating point: a zero divisor gives NaN (0/0) or +-Inf, no exception.
NaN == <<0, 0>>
Rat(n, d) ==
    IF d = 0 THEN (IF n = 0 THEN NaN ELSE IF n < 0 THEN <<-1, 0>> ELSE <<1, 0>>)
    ELSE LET g == GCD(Abs(n), Abs(d))
             s == IF d < 0 THEN -1 ELSE 1
         IN  <<(s * n) \div g, (s * d) \div g>>

Finite(a) == a[2] # 0

Whole(n) == <<n, 1>>
RatSub(a, b) == Rat(a[1] * b[2] - b[1] * a[2], a[2] * b[2])
RatMul(a, b) == Rat(a[1] * b[1], a[2] * b[2])
RatLess(a, b) == a[1] * b[2] < b[1] * a[2]
IsZero(a) == a[1] = 0 /\ a[2] # 0

\* Python's true division: a zero divisor raises ZeroDivisionError.
ZeroDivisionError == <<0, 0, "ZeroDivisionError">>
TrueDiv(a, b) == IF IsZero(b) THEN ZeroDivisionError ELSE Rat(a[1] * b[2], a[2] * b[1])
Raised(x) == Len(x) = 3

\* ------------------------------------------------------------ column helpers
RECURSIVE ColSum(_, _)
ColSum(rows, col) ==
    IF rows = <<>> THEN 0 ELSE rows[1][col] + ColSum(Tail(rows), col)

RECURSIVE CountTrue(_, _)
CountTrue(rows, col) ==
    IF rows = <<>> THEN 0
    ELSE (IF rows[1][col] THEN 1 ELSE 0) + CountTrue(Tail(rows), col)

\* df[df[col] == v] and df[df[col] >= v]: a new frame, rows in their order.
WhereEq(rows, col, v) == SelectSeq(rows, LAMBDA r : r[col] = v)
WhereGe(rows, col, v) == SelectSeq(rows, LAMBDA r : r[col] >= v)

\* Series.mean() of a non-empty column stored with `scale` units per 1.0.
Mean(rows, col, scale) == Rat(ColSum(rows, col), scale * Len(rows))

\* ------------------------------------------------------------- data loading
Reached_strict(months) == months > RETENTION_THRESHOLD

Reached(months) == months >= RETENTION_THRESHOLD

\* pd.DataFrame(data) followed by the derived Reached_12mo column.
DataFrame(data) ==
    [i \in 1..Len(data) |->
        [Company             |-> data[i][1],
         Months_Retained     |-> data[i][2],
         Productivity_Rating |-> data[i][3],
         Absenteeism_Days    |-> data[i][4],
         Reached_12mo        |-> Reached(data[i][2])]]

Rep(x, n) == [i \in 1..n |-> x]

EmbeddedCompany_raw_label == Rep("Training", 30) \o Rep("Control", 30)

EmbeddedCompany == Rep("Training", 30) \o Rep("No Training", 30)

EmbeddedMonths ==
    Rep(120, 21) \o <<118, 115, 109, 102, 98, 94, 87, 76, 69>> \o
    Rep(120, 9) \o <<112, 108, 95, 89, 81, 74, 68, 62, 55, 49,
                     43, 38, 32, 27, 21, 18, 77, 84, 91, 103, 66>>

EmbeddedProductivity ==
    <<47, 40, 50, 38, 46, 50, 40, 42, 44, 42, 38, 44, 40, 46, 40,
      50, 41, 43, 47, 39, 45, 49, 38, 45, 45, 47, 39, 39, 46, 45,
      35, 35, 29, 34, 35, 29, 44, 36, 26, 37, 27, 38, 40, 28, 39,
      35, 38, 44, 32, 28, 28, 28, 33, 35, 35, 38, 33, 42, 31, 49>>

EmbeddedAbsenteeism ==
    <<4, 1, 1, 4, 3, 4, 4, 3, 1, 0, 2, 5, 3, 1, 3, 4, 1, 3, 3, 1,
      4, 4, 5, 5, 0, 1, 4, 4, 4, 11,
      12, 14, 13, 12, 8, 13, 6, 9, 8, 10, 19, 2, 12, 3, 8, 14, 10, 5, 7, 12,
      7, 10, 10, 7, 18, 12, 1, 10, 7, 13>>

load_data ==
    DataFrame([i \in 1..60 |->
        <<EmbeddedCompany[i], EmbeddedMonths[i],
          EmbeddedProductivity[i], EmbeddedAbsenteeism[i]>>])

\* ------------------------------------------------------------ value object
MetricComparison(training_value, control_value) ==
    [training_value |-> training_value, control_value |-> control_value]

difference_reversed(mc) == RatSub(mc.control_value, mc.training_value)

difference(mc) == RatSub(mc.training_value, mc.control_value)

percent_change_of_training(mc) ==
    IF ~IsZero(mc.control_value)
    THEN RatMul(TrueDiv(difference(mc), mc.training_value), Whole(100))
    ELSE Whole(0)

percent_change(mc) ==
    IF ~IsZero(mc.control_value)
    THEN RatMul(TrueDiv(difference(mc), mc.control_value), Whole(100))
    ELSE Whole(0)

\* ------------------------------------------------------ metrics calculation
Filter_strict(table, min_retention) ==
    IF min_retention > 0
    THEN SelectSeq(table, LAMBDA r : r.Months_Retained > min_retention)
    ELSE table

Filter(table, min_retention) ==
    IF min_retention > 0 THEN WhereGe(table, "Months_Retained", min_retention)
    ELSE table

training_total_cost_retained_only(training_df) ==
    (Len(training_df) * COST_PER_HIRE)
        + (CountTrue(training_df, "Reached_12mo") * TRAINING_COST_PER_PERSON)

training_total_cost(training_df) ==
    (Len(training_df) * COST_PER_HIRE) + (Len(training_df) * TRAINING_COST_PER_PERSON)

control_total_cost(control_df) == Len(control_df) * COST_PER_HIRE

cost_per_retained_unguarded(total_cost, stayed) == Rat(total_cost, stayed)

cost_per_retained(total_cost, stayed) ==
    IF stayed > 0 THEN Rat(total_cost, stayed) ELSE Whole(0)

retention_rate_fraction(group) ==
    Rat(CountTrue(group, "Reached_12mo"), Len(group))

retention_rate(group) ==
    RatMul(Rat(CountTrue(group, "Reached_12mo"), Len(group)), Whole(100))

\* The empty-group guard.
NoData_both_empty(training_df, control_df) == Len(training_df) = 0 /\ Len(control_df) = 0

NoData(training_df, control_df) == Len(training_df) = 0 \/ Len(control_df) = 0

\* The call's effect on the caller's table: `df = df[...]` rebinds the local
\* name to a new frame, the frame passed in is not written.
TableAfterCall_in_place(table, min_retention) ==
    IF min_retention > 0 THEN WhereGe(table, "Months_Retained", min_retention)
    ELSE table

TableAfterCall(table, min_retention) == table

\* The dict the success path builds from the two groups.
metrics_dict(training_df, control_df) ==
    LET training_stayed == CountTrue(training_df, "Reached_12mo")
        control_stayed  == CountTrue(control_df, "Reached_12mo")
    IN  [retention |-> MetricComparison(retention_rate(training_df),
                                        retention_rate(control_df)),
         productivity |-> MetricComparison(
             Mean(training_df, "Productivity_Rating", 10),
             Mean(control_df, "Productivity_Rating", 10)),
         absenteeism |-> MetricComparison(
             Mean(training_df, "Absenteeism_Days", 1),
             Mean(control_df, "Absenteeism_Days", 1)),
         training_stayed |-> training_stayed,
         control_stayed  |-> control_stayed,
         training_total  |-> Len(training_df),
         control_total   |-> Len(control_df),
         training_cost_per_retained |->
             cost_per_retained(training_total_cost(training_df), training_stayed),
         control_cost_per_retained |->
             cost_per_retained(control_total_cost(control_df), control_stayed)]

\* The call as a whole: the caller's table after it, the locals, the result.
calculate_metrics(table, min_retention) ==
    LET fdf         == Filter(table, min_retention)
        training_df == WhereEq(fdf, "Company", "Training")
        control_df  == WhereEq(fdf, "Company", "No Training")
        views == [df |-> fdf, training_df |-> training_df, control_df |-> control_df]
    IN  [table  |-> TableAfterCall(table, min_retention),
         locals |->
            IF NoData(training_df, control_df) THEN views
            ELSE [df |-> fdf, training_df |-> training_df, control_df |-> control_df,
                  training_total_cost |-> training_total_cost(training_df),
                  control_total_cost  |-> control_total_cost(control_df)],
         result |->
            IF NoData(training_df, control_df) THEN None
            ELSE metrics_dict(training_df, control_df)]

\* ----------------------------------------------------------- main's render
render_kpi_card(title, value, delta, delta_positive) ==
    [title |-> title, value |-> value, delta |-> delta, delta_positive |-> delta_positive]

create_retention_donut(m) ==
    [chart  |-> "retention_donut",
     values |-> <<m.retention.training_value,
                  RatSub(Whole(100), m.retention.training_value)>>]

create_comparison_chart(title, training_val, control_val) ==
    [chart |-> title, values |-> <<training_val, control_val>>]

create_cost_per_hire_chart(m) ==
    [chart  |-> "cost_per_retained",
     values |-> <<m.training_cost_per_retained, m.control_cost_per_retained>>]

create_interactive_scatter(table, highlight) ==
    [chart |-> "scatter", highlight |-> highlight,
     points |-> [i \in 1..Len(table) |->
                    <<table[i].Months_Retained, table[i].Productivity_Rating>>]]

\* The divisor of the percent-reduction figure of the fourth KPI card.
ReductionDivisor(m) == m.control_cost_per_retained

EmptyPage ==
    [notice |-> FALSE, cards |-> <<>>, charts |-> <<>>, details |-> <<>>,
     exception |-> "none"]

\* The NoData branch: st.error(...) and return.
NoDataBranch_falls_through ==
    [EmptyPage EXCEPT !.notice = TRUE, !.exception = "TypeError"]

NoDataBranch == [EmptyPage EXCEPT !.notice = TRUE]

\* Everything main does after calculate_metrics returned.
render(m, table, highlight, details) ==
    IF m = None
    THEN NoDataBranch
    ELSE
    LET retention    == m.retention
        productivity == m.productivity
        absenteeism  == m.absenteeism
        extra_retained == m.training_stayed - m.control_stayed
        cards3 == <<
            render_kpi_card("12-MONTH RETENTION", retention.training_value,
                            difference(retention), TRUE),
            render_kpi_card("PRODUCTIVITY RATING", productivity.training_value,
                            percent_change(productivity), TRUE),
            render_kpi_card("ABSENTEEISM", absenteeism.training_value,
                            difference(absenteeism),
                            RatLess(difference(absenteeism), Whole(0)))>>
        cost_savings == RatSub(m.control_cost_per_retained, m.training_cost_per_retained)
        reduction    == TrueDiv(cost_savings, ReductionDivisor(m))
    IN  IF Raised(reduction)
        THEN [EmptyPage EXCEPT !.cards = cards3, !.exception = "ZeroDivisionError"]
        ELSE
        LET card4 == render_kpi_card("COST SAVINGS/EMPLOYEE", cost_savings,
                                     RatMul(reduction, Whole(100)),
                                     RatLess(Whole(0), cost_savings))
            charts == <<
                create_retention_donut(m),
                create_comparison_chart("Productivity Rating",
                                        productivity.training_value,
                                        productivity.control_value),
                create_cost_per_hire_chart(m),
                create_interactive_scatter(table,
                    IF highlight = "Both" THEN "None" ELSE highlight)>>
            roi_per_employee == RatSub(m.control_cost_per_retained,
                                       m.training_cost_per_retained)
            total_roi == RatMul(roi_per_employee, Whole(m.training_stayed))
            roi == TrueDiv(total_roi, Whole(m.training_total * TRAINING_COST_PER_PERSON))
            shown == [EmptyPage EXCEPT !.cards = Append(cards3, card4), !.charts = charts]
        IN  IF ~details THEN shown
            ELSE IF Raised(roi)
            THEN [shown EXCEPT !.details = <<"TRAINING GROUP", "CONTROL GROUP">>,
                               !.exception = "ZeroDivisionError"]
            ELSE [shown EXCEPT !.details = <<
                    [panel |-> "TRAINING GROUP", total |-> m.training_total,
                     retained |-> m.training_stayed,
                     cost_per_retained |-> m.training_cost_per_retained],
                    [panel |-> "CONTROL GROUP", total |-> m.control_total,
                     retained |-> m.control_stayed,
                     cost_per_retained |-> m.control_cost_per_retained],
                    [panel |-> "RETURN ON INVESTMENT", savings |-> roi_per_employee,
                     total_savings |-> total_roi, extra_retained |-> extra_retained,
                     roi |-> RatMul(roi, Whole(100))]>>]

\* One run of the script main with the widgets at (m, h, s): the state it leaves.
main_incremental(cache, m, h, s, before) ==
    LET table == IF before = None THEN cache ELSE before.frame.df
        call  == calculate_metrics(table, m)
    IN  [cached |-> cache, df |-> cache,
         min_months |-> m, highlight_group |-> h, show_details |-> s,
         frame |-> call.locals, metrics |-> call.result,
         page |-> render(call.result, cache, h, s),
         prev |-> before]

main(cache, m, h, s, before) ==
    LET table == cache                       \* df = load_data(), served from the cache
        call  == calculate_metrics(table, m)
    IN  [cached |-> cache, df |-> call.table,
         min_months |-> m, highlight_group |-> h, show_details |-> s,
         frame |-> call.locals, metrics |-> call.result,
         page |-> render(call.result, call.table, h, s),
         prev |-> before]

\* What a run leaves for the next one to be compared with.
LastRun == [min_months |-> min_months, frame |-> frame, metrics |-> metrics]

\* The widgets and the run's outcome as the state of the session.
Starts(st) ==
    /\ cached = st.cached
    /\ df = st.df
    /\ min_months = st.min_months
    /\ highlight_group = st.highlight_group
    /\ show_details = st.show_details
    /\ frame = st.frame
    /\ metrics = st.metrics
    /\ page = st.page
    /\ prev = st.prev
    /\ calls = <<>>
    /\ dash = None

Becomes(st) ==
    /\ cached' = st.cached
    /\ df' = st.df
    /\ min_months' = st.min_months
    /\ highlight_group' = st.highlight_group
    /\ show_details' = st.show_details
    /\ frame' = st.frame
    /\ metrics' = st.metrics
    /\ page' = st.page
    /\ prev' = st.prev
    /\ calls' = calls
    /\ dash' = dash

\* ------------------------------------------------------------ input domains
Companies == {"Training", "No Training"}
MonthsVals == {59, 60, 120}
\* (Productivity_Rating, Absenteeism_Days) of the rows drawn for a table.
Rating(c, mo) ==
    IF c = "Training"
    THEN (IF mo = 120 THEN <<45, 1>> ELSE IF mo = 60 THEN <<40, 4>> ELSE <<38, 5>>)
    ELSE (IF mo = 120 THEN <<35, 7>> ELSE IF mo = 60 THEN <<30, 9>> ELSE <<28, 12>>)
RowVals == {<<c, mo, Rating(c, mo)[1], Rating(c, mo)[2]>> : c \in Companies, mo \in MonthsVals}

RECURSIVE SeqsUpTo(_, _)
SeqsUpTo(S, n) ==
    IF n = 0 THEN {<<>>}
    ELSE LET shorter == SeqsUpTo(S, n - 1)
         IN  shorter \cup {Append(q, x) : q \in shorter, x \in S}

Tables == {DataFrame(d) : d \in SeqsUpTo(RowVals, MaxRows)} \cup {load_data}

MinRetentionVals == {0, 60, 120}
SliderVals == {10 * k : k \in 0..12}
HighlightVals == {"Both", "Training", "Control"}

\* ----------------------------------------------------------------- actions
Slider(m) ==
    /\ m # min_months
    /\ Becomes(main(cached, m, highlight_group, show_details, LastRun))

Selectbox(h) ==
    /\ h # highlight_group
    /\ Becomes(main(cached, min_months, h, show_details, LastRun))

Checkbox ==
    /\ show_details \in BOOLEAN
    /\ Becomes(main(cached, min_months, highlight_group, ~show_details, LastRun))

\* The metrics engine and main over any table a provider may supply.
Init == \E t \in Tables : Starts(main(t, 0, "Both", FALSE, None))

Next ==
    \/ \E m \in MinRetentionVals : Slider(m)
    \/ \E h \in HighlightVals : Selectbox(h)
    \/ Checkbox

Spec == Init /\ [][Next]_vars

\* The deployed dashboard: the embedded dataset and the slider's own range.
InitMain == Starts(main(load_data, 0, "Both", FALSE, None))

NextMain ==
    \/ \E m \in SliderVals : Slider(m)
    \/ \E h \in HighlightVals : Selectbox(h)
    \/ Checkbox

SpecMain == InitMain /\ [][NextMain]_vars

\* ------------------------------------------- calculate_metrics, re-entered
\* Two callers run calculate_metrics at the same time on the one table df;
\* each call advances statement by statement, its locals its own.
Callers == {1, 2}
Pending == [pending |-> TRUE]

NewCall(m) ==
    [pc |-> "filter", min_retention |-> m, df |-> <<>>,
     training_df |-> <<>>, control_df |-> <<>>, result |-> Pending]

\* if min_retention > 0: df = df[df['Months_Retained'] >= min_retention]
CallFilter(c) ==
    /\ calls[c].pc = "filter"
    /\ calls' = [calls EXCEPT ![c].df = Filter(df, calls[c].min_retention),
                              ![c].pc = "split"]
    /\ df' = TableAfterCall(df, calls[c].min_retention)
    /\ UNCHANGED <<cached, min_months, highlight_group, show_details, frame, metrics,
                   page, prev, dash>>

\* training_df = ...; control_df = ...
CallSplit(c) ==
    /\ calls[c].pc = "split"
    /\ calls' = [calls EXCEPT
                    ![c].training_df = WhereEq(calls[c].df, "Company", "Training"),
                    ![c].control_df = WhereEq(calls[c].df, "Company", "No Training"),
                    ![c].pc = "guard"]
    /\ UNCHANGED <<cached, df, min_months, highlight_group, show_details, frame, metrics,
                   page, prev, dash>>

\* if len(training_df) == 0 or len(control_df) == 0: return None
CallGuard(c) ==
    /\ calls[c].pc = "guard"
    /\ calls' = IF NoData(calls[c].training_df, calls[c].control_df)
                THEN [calls EXCEPT ![c].result = None, ![c].pc = "done"]
                ELSE [calls EXCEPT ![c].pc = "compute"]
    /\ UNCHANGED <<cached, df, min_months, highlight_group, show_details, frame, metrics,
                   page, prev, dash>>

\* the computations and the return of the dict
CallCompute(c) ==
    /\ calls[c].pc = "compute"
    /\ calls' = [calls EXCEPT
                    ![c].result = metrics_dict(calls[c].training_df, calls[c].control_df),
                    ![c].pc = "done"]
    /\ UNCHANGED <<cached, df, min_months, highlight_group, show_details, frame, metrics,
                   page, prev, dash>>

InitCalls ==
    \E t \in Tables : \E a, b \in MinRetentionVals :
        /\ a # b
        /\ cached = t
        /\ df = t
        /\ min_months = 0
        /\ highlight_group = "Both"
        /\ show_details = FALSE
        /\ frame = None
        /\ metrics = None
        /\ page = EmptyPage
        /\ prev = None
        /\ calls = [c \in Callers |-> NewCall(IF c = 1 THEN a ELSE b)]
        /\ dash = None

NextCalls ==
    \E c \in Callers :
        \/ CallFilter(c)
        \/ CallSplit(c)
        \/ CallGuard(c)
        \/ CallCompute(c)

SpecCalls == InitCalls /\ [][NextCalls]_vars

\* ------------------------------------- the button-driven front-end (v2)
NCCER_NAVY == "#172535"
NCCER_ORANGE == "#FD6A3C"
NCCER_DARK_GRAY == "#32373c"

Buttons == {"retention-btn", "productivity-btn", "cost-btn"}

\* The metric configurations of update_graphs.
metric_configs ==
    [retention    |-> [column |-> "Months_Retained",
                       title |-> "Average Retention Duration by Company",
                       y_label |-> "Average Months Retained"],
     productivity |-> [column |-> "Productivity_Rating",
                       title |-> "Average Productivity Rating by Company",
                       y_label |-> "Productivity Rating"],
     cost         |-> [column |-> "Cost_Per_Hire",
                       title |-> "Average Cost Per Hire by Company",
                       y_label |-> "Cost Per Hire ($)"]]

\* ctx.triggered[0]['prop_id'].split('.')[0] and the if/elif chain on it; an
\* empty `triggered` is the initial call.
ActiveMetric_stuck(triggered) == "retention"

ActiveMetric(triggered) ==
    IF triggered = <<>> THEN "retention"
    ELSE LET button_id == triggered[1].button
         IN  IF button_id = "retention-btn" THEN "retention"
             ELSE IF button_id = "productivity-btn" THEN "productivity"
             ELSE IF button_id = "cost-btn" THEN "cost"
             ELSE "retention"

ButtonStyle(active_metric, metric) ==
    IF active_metric = metric THEN NCCER_ORANGE ELSE NCCER_DARK_GRAY

\* The callback: its six outputs.  The figures are kept by what they chart (the
\* column, title and axis label), not by the values read from the data file.
update_graphs(triggered) ==
    LET active_metric == ActiveMetric(triggered)
        metric_config == metric_configs[active_metric]
    IN  [bar_chart  |-> [title |-> metric_config.title, column |-> metric_config.column,
                         y_label |-> metric_config.y_label],
         line_chart |-> [column |-> metric_config.column,
                         y_label |-> metric_config.y_label],
         active_metric |-> active_metric,
         styles |-> [b \in Buttons |->
                        IF b = "retention-btn" THEN ButtonStyle(active_metric, "retention")
                        ELSE IF b = "productivity-btn"
                             THEN ButtonStyle(active_metric, "productivity")
                             ELSE ButtonStyle(active_metric, "cost")]]

\* The page as the layout serves it, before the initial callback has run.
DashLayout ==
    [called        |-> FALSE,
     n_clicks      |-> [b \in Buttons |-> 0],
     last_clicked  |-> "none",
     active_metric |-> "retention",
     styles        |-> [b \in Buttons |->
                          IF b = "retention-btn" THEN NCCER_ORANGE
                          ELSE IF b = "productivity-btn" THEN NCCER_DARK_GRAY
                          ELSE NCCER_NAVY],
     bar_chart     |-> None,
     line_chart    |-> None]

Outputs(d, out) ==
    [d EXCEPT !.called = TRUE,
              !.bar_chart = out.bar_chart, !.line_chart = out.line_chart,
              !.active_metric = out.active_metric, !.styles = out.styles]

Idle == UNCHANGED <<cached, df, min_months, highlight_group, show_details, frame, metrics,
                    page, prev, calls>>

\* prevent_initial_call=False: the callback runs once at page load, nothing triggered.
\* callback_context.triggered is then empty, or (older releases of the library)
\* holds the single entry with prop_id '.'.
InitialCall ==
    /\ ~dash.called
    /\ \E triggered \in {<<>>, <<[button |-> "", prop |-> ""]>>} :
            dash' = Outputs(dash, update_graphs(triggered))
    /\ Idle

\* A click on button b raises its n_clicks and triggers the callback.
Click(b) ==
    /\ dash.called
    /\ dash.n_clicks[b] < MaxClicks
    /\ dash' = Outputs([dash EXCEPT !.n_clicks[b] = @ + 1, !.last_clicked = b],
                       update_graphs(<<[button |-> b, prop |-> "n_clicks"]>>))
    /\ Idle

InitDash ==
    /\ cached = <<>>
    /\ df = <<>>
    /\ min_months = 0
    /\ highlight_group = "Both"
    /\ show_details = FALSE
    /\ frame = None
    /\ metrics = None
    /\ page = EmptyPage
    /\ prev = None
    /\ calls = <<>>
    /\ dash = DashLayout

NextDash ==
    \/ InitialCall
    \/ \E b \in Buttons : Click(b)

SpecDash == InitDash /\ [][NextDash]_vars

\* ------------------------------------------------------------------ claims
Comparisons == {metrics.retention, metrics.productivity, metrics.absenteeism}

\* C1: calculate_metrics returns None exactly when the Training or the Control
\* group is empty after filtering; a metrics object has both groups non-empty
\* and no field that is NaN or infinite.
C1_NoDataIffEmptyGroup ==
    /\ (metrics = None) <=> (Len(frame.training_df) = 0 \/ Len(frame.control_df) = 0)
    /\ metrics # None =>
        /\ metrics.training_total > 0 /\ metrics.control_total > 0
        /\ \A mc \in Comparisons : Finite(mc.training_value) /\ Finite(mc.control_value)
        /\ Finite(metrics.training_cost_per_retained)
        /\ Finite(metrics.control_cost_per_retained)

\* A filter that removed the whole Control group while Training members remain.
C1_Witness ==
    /\ metrics = None
    /\ min_months > 0
    /\ Len(frame.training_df) > 0
    /\ Len(frame.control_df) = 0
    /\ \E i \in 1..Len(cached) : cached[i].Company = "No Training"

C3_CostPerRetained ==
    metrics # None =>
        LET tcost == Len(frame.training_df) * 1750 + Len(frame.training_df) * 300
            ccost == Len(frame.control_df) * 1750
        IN  /\ metrics.training_stayed > 0 =>
                /\ Finite(metrics.training_cost_per_retained)
                /\ RatMul(metrics.training_cost_per_retained,
                          Whole(metrics.training_stayed)) = Whole(tcost)
            /\ metrics.training_stayed = 0 => metrics.training_cost_per_retained = <<0, 1>>
            /\ metrics.control_stayed > 0 =>
                /\ Finite(metrics.control_cost_per_retained)
                /\ RatMul(metrics.control_cost_per_retained,
                          Whole(metrics.control_stayed)) = Whole(ccost)
            /\ metrics.control_stayed = 0 => metrics.control_cost_per_retained = <<0, 1>>

\* A non-empty Control group of which nobody reached the threshold, next to a
\* Training group with retained members.
C3_Witness ==
    /\ metrics # None
    /\ metrics.control_stayed = 0
    /\ metrics.training_stayed > 0

\* C4: for every MetricComparison, difference = training - control,
\* percent_change = difference / control * 100 when control # 0, and
\* percent_change = 0 when control = 0.
C4_MetricComparison ==
    metrics # None =>
        \A mc \in Comparisons :
            LET t == mc.training_value
                c == mc.control_value
            IN  /\ difference(mc) = Rat(t[1] * c[2] - c[1] * t[2], t[2] * c[2])
                /\ c[1] # 0 =>
                    percent_change(mc) =
                        Rat((t[1] * c[2] - c[1] * t[2]) * c[2] * 100, t[2] * c[2] * c[1])
                /\ c[1] = 0 => percent_change(mc) = <<0, 1>>

\* A comparison whose control value is 0 and whose training value is not, next
\* to one whose control value is not 0.
C4_Witness ==
    /\ metrics # None
    /\ metrics.retention.control_value = <<0, 1>>
    /\ metrics.retention.training_value # <<0, 1>>
    /\ metrics.productivity.control_value # <<0, 1>>
    /\ page.cards[2].delta = percent_change(metrics.productivity)

\* `sub` is `full` with some rows left out, the others in their order.
RECURSIVE IsSubSeq(_, _)
IsSubSeq(sub, full) ==
    IF sub = <<>> THEN TRUE
    ELSE IF full = <<>> THEN FALSE
    ELSE IF sub[1] = full[1] THEN IsSubSeq(Tail(sub), Tail(full))
    ELSE IsSubSeq(sub, Tail(full))

Reaching(group) == Cardinality({i \in 1..Len(group) : group[i].Months_Retained >= 120})

\* C5: with min_retention > 0 the records used are exactly those with
\* Months_Retained >= min_retention, with 0 all records are used; and of two
\* calls the one with the higher threshold uses a subset of the other's records
\* and has group sizes (training_total, control_total) no larger.
C5_FilterMonotone ==
    /\ frame.df = SelectSeq(cached, LAMBDA r :
                      min_months = 0 \/ r.Months_Retained >= min_months)
    /\ (prev # None /\ prev.min_months <= min_months) =>
        /\ IsSubSeq(frame.df, prev.frame.df)
        /\ Len(frame.training_df) <= Len(prev.frame.training_df)
        /\ Len(frame.control_df) <= Len(prev.frame.control_df)
        /\ (metrics # None /\ prev.metrics # None) =>
            /\ metrics.training_total <= prev.metrics.training_total
            /\ metrics.control_total <= prev.metrics.control_total

\* Two successful calls, the later with the higher threshold and a record at
\* exactly that threshold kept, and fewer records than the earlier.
C5_Witness ==
    /\ prev # None /\ prev.metrics # None /\ metrics # None
    /\ prev.min_months < min_months
    /\ Len(frame.df) < Len(prev.frame.df)
    /\ \E i \in 1..Len(frame.df) : frame.df[i].Months_Retained = min_months

\* C6: each group's retention value is count(reached) / count(group) * 100 and
\* lies in [0, 100].
C6_RetentionRate ==
    metrics # None =>
        LET rt == metrics.retention.training_value
            rc == metrics.retention.control_value
        IN  /\ rt[2] > 0 /\ rc[2] > 0
            /\ rt[1] * Len(frame.training_df) = 100 * Reaching(frame.training_df) * rt[2]
            /\ rc[1] * Len(frame.control_df) = 100 * Reaching(frame.control_df) * rc[2]
            /\ 0 <= rt[1] /\ rt[1] <= 100 * rt[2]
            /\ 0 <= rc[1] /\ rc[1] <= 100 * rc[2]

\* A group of which some but not all members reached the threshold.
C6_Witness ==
    /\ metrics # None
    /\ 0 < Reaching(frame.training_df)
    /\ Reaching(frame.training_df) < Len(frame.training_df)

\* C7: training_total_cost = |training| * 1750 + |training| * 300 and
\* control_total_cost = |control| * 1750 over the filtered groups, every member
\* charged whether retained or not; 30 members with 21 retained cost 61500,
\* 61500/21 per retained member.
C7_CostModel ==
    metrics # None =>
        /\ frame.training_total_cost = 2050 * Len(frame.training_df)
        /\ frame.control_total_cost = 1750 * Len(frame.control_df)
        /\ (Len(frame.training_df) = 30 /\ Reaching(frame.training_df) = 21) =>
            /\ frame.training_total_cost = 61500
            /\ metrics.training_cost_per_retained = <<20500, 7>>

\* The worked example: a Training group of 30 with 21 retained.
C7_Witness ==
    /\ metrics # None
    /\ metrics.training_total = 30
    /\ metrics.training_stayed = 21
    /\ frame.training_total_cost = 61500

\* C8: on the embedded dataset with no filter the groups are 30 with 21 retained
\* and 30 with 9 retained, so retention is 70 against 30, a difference of 40.
C8_EmbeddedRetention ==
    min_months = 0 =>
        /\ metrics # None
        /\ metrics.training_total = 30 /\ metrics.training_stayed = 21
        /\ metrics.control_total = 30 /\ metrics.control_stayed = 9
        /\ metrics.retention.training_value = <<70, 1>>
        /\ metrics.retention.control_value = <<30, 1>>
        /\ difference(metrics.retention) = <<40, 1>>
        /\ page.cards[1].delta = <<40, 1>>

\* The unfiltered run, reached again after the slider was moved away and back.
C8_Witness ==
    /\ cached = load_data
    /\ min_months = 0
    /\ prev # None /\ prev.min_months > 0
    /\ metrics # None

Tables_of_run == {cached, df, frame.df, frame.training_df, frame.control_df}

\* C9: every record's stored Reached_12mo flag equals Months_Retained >= 12.0,
\* with exactly 12.0 reached, in the cached table and in every filtered view.
C9_ThresholdConsistency ==
    \A t \in Tables_of_run : \A i \in 1..Len(t) :
        t[i].Reached_12mo <=> (t[i].Months_Retained >= 120)

\* A filtered view holding a record at exactly 12.0 months, flagged as reached,
\* from a table that also holds a record below the threshold.
C9_Witness ==
    /\ min_months > 0
    /\ \E i \in 1..Len(frame.control_df) :
        frame.control_df[i].Months_Retained = 120 /\ frame.control_df[i].Reached_12mo
    /\ \E i \in 1..Len(cached) : ~cached[i].Reached_12mo

\* C10: calculate_metrics leaves the table it was given unchanged on the NoData
\* and on the success path, and the cached dataset never changes.
C10_DatasetImmutable ==
    /\ df = cached
    /\ [][cached' = cached /\ df' = cached]_vars

\* A successful filtered call that dropped records, after a NoData call.
C10_Witness ==
    /\ metrics # None
    /\ min_months > 0
    /\ Len(frame.df) < Len(cached)
    /\ prev # None /\ prev.metrics = None
    /\ df = cached

\* The rows of the cached table of company c that a threshold m lets through.
Passing(c, m) ==
    {i \in 1..Len(cached) :
        /\ cached[i].Company = c
        /\ (m = 0 \/ cached[i].Months_Retained >= m)}

PassingReached(c, m) == {i \in Passing(c, m) : cached[i].Months_Retained >= 120}

\* The metrics on the page are those of the full dataset at the current slider value.
MetricsOfCurrentInputs ==
    /\ metrics = calculate_metrics(cached, min_months).result
    /\ (metrics = None) <=>
        (Passing("Training", min_months) = {} \/ Passing("No Training", min_months) = {})
    /\ metrics # None =>
        /\ metrics.training_total = Cardinality(Passing("Training", min_months))
        /\ metrics.control_total = Cardinality(Passing("No Training", min_months))
        /\ metrics.training_stayed = Cardinality(PassingReached("Training", min_months))
        /\ metrics.control_stayed = Cardinality(PassingReached("No Training", min_months))

\* C11: after any sequence of interactions the metrics rendered are exactly
\* calculate_metrics(full dataset, current min_months), whatever the earlier
\* slider values and results were, and an interaction that changes only the
\* highlight or the details toggle leaves the metrics unchanged.
C11_HistoryIndependent ==
    /\ []MetricsOfCurrentInputs
    /\ [][(min_months' = min_months) => (metrics' = metrics)]_vars

\* The slider lowered again after a run that ended in NoData: the new run has
\* data that the previous run's filter had removed.
C11_Witness ==
    /\ prev # None
    /\ prev.min_months > min_months
    /\ prev.metrics = None
    /\ metrics # None
    /\ highlight_group # "Both"

\* What a call with threshold m returns when it runs alone on the table as loaded.
AloneTotal(c, m) == Cardinality(Passing(c, m))
AloneStayed(c, m) == Cardinality(PassingReached(c, m))

ReturnsAsAlone(c) ==
    LET m == calls[c].min_retention
        r == calls[c].result
    IN  /\ r = calculate_metrics(cached, m).result
        /\ (r = None) <=> (AloneTotal("Training", m) = 0 \/ AloneTotal("No Training", m) = 0)
        /\ r # None =>
            /\ r.training_total = AloneTotal("Training", m)
            /\ r.control_total = AloneTotal("No Training", m)
            /\ r.training_stayed = AloneStayed("Training", m)
            /\ r.control_stayed = AloneStayed("No Training", m)

\* C12: two calculate_metrics calls running concurrently on the same table with
\* different thresholds do not interfere: under every interleaving each returns
\* what it returns when run alone, and the shared table is only read.
C12_ReentrantCalls ==
    /\ df = cached
    /\ \A c \in Callers : calls[c].pc = "done" => ReturnsAsAlone(c)

\* Both calls finished with a result, the call with the higher threshold having
\* dropped records that the other call counted.
C12_Witness ==
    /\ \A c \in Callers : calls[c].pc = "done"
    /\ calls[1].min_retention > calls[2].min_retention
    /\ calls[1].result # None /\ calls[2].result # None
    /\ calls[1].result.control_total < calls[2].result.control_total

\* C14: whenever calculate_metrics returns None, main shows the error notice,
\* does not fail, and renders no KPI card, chart or detail panel; no chart is
\* rendered from a missing metrics object and the notice appears only on NoData.
C14_NoDataNotice ==
    /\ metrics = None =>
        /\ page.notice
        /\ page.exception = "none"
        /\ page.cards = <<>> /\ page.charts = <<>> /\ page.details = <<>>
    /\ metrics # None => ~page.notice
    /\ (page.cards # <<>> \/ page.charts # <<>> \/ page.details # <<>>) => metrics # None

\* A NoData run with the details toggle on, right after a run that had data.
C14_Witness ==
    /\ metrics = None
    /\ show_details
    /\ page.notice
    /\ prev # None /\ prev.metrics # None

\* C15: every record of the provider's table belongs to exactly one of the two
\* cohorts and each cohort has a record; the Training and Control groups of
\* calculate_metrics are disjoint and together hold every filtered record.
C15_CohortPartition ==
    /\ \A i \in 1..Len(cached) : cached[i].Company \in {"Training", "No Training"}
    /\ \E i \in 1..Len(cached) : cached[i].Company = "Training"
    /\ \E i \in 1..Len(cached) : cached[i].Company = "No Training"
    /\ \A i \in 1..Len(frame.training_df) : frame.training_df[i].Company = "Training"
    /\ \A i \in 1..Len(frame.control_df) : frame.control_df[i].Company = "No Training"
    /\ Len(frame.training_df) + Len(frame.control_df) = Len(frame.df)
    /\ metrics # None => metrics.training_total + metrics.control_total = Len(frame.df)

\* A filtered run on the embedded table that dropped records of both cohorts.
C15_Witness ==
    /\ cached = load_data
    /\ min_months > 0
    /\ metrics # None
    /\ metrics.training_total < 30 /\ metrics.control_total < 30
    /\ metrics.training_total + metrics.control_total = Len(frame.df)

MetricOfButton(b) ==
    IF b = "retention-btn" THEN "retention"
    ELSE IF b = "productivity-btn" THEN "productivity" ELSE "cost"

ColumnOfMetric(m) ==
    IF m = "retention" THEN "Months_Retained"
    ELSE IF m = "productivity" THEN "Productivity_Rating" ELSE "Cost_Per_Hire"

\* C16: at the initial call with no trigger the active metric is retention; after
\* any clicks the metric stored in 'active-metric' and charted is that of the most
\* recently clicked button, is one of retention, productivity, cost, and exactly
\* one button is orange, the button of the active metric.
C16_MetricSelector ==
    /\ dash.active_metric \in {"retention", "productivity", "cost"}
    /\ dash.last_clicked = "none" => dash.active_metric = "retention"
    /\ dash.last_clicked # "none" => dash.active_metric = MetricOfButton(dash.last_clicked)
    /\ dash.called =>
        /\ dash.bar_chart.column = ColumnOfMetric(dash.active_metric)
        /\ dash.line_chart.column = ColumnOfMetric(dash.active_metric)
    /\ {b \in Buttons : dash.styles[b] = "#FD6A3C"}
            = {b \in Buttons : MetricOfButton(b) = dash.active_metric}

\* The cost button clicked last, after both other buttons had been clicked.
C16_Witness ==
    /\ dash.called
    /\ dash.last_clicked = "cost-btn"
    /\ dash.n_clicks["retention-btn"] > 0
    /\ dash.n_clicks["productivity-btn"] > 0
    /\ dash.active_metric = "cost"
    /\ dash.bar_chart.column = "Cost_Per_Hire"

\* C17: with the embedded dataset and every slider value 0, 1, ..., 12,
\* calculate_metrics returns a metrics object with training_stayed = 21 and
\* control_stayed = 9, so the NoData branch is never taken and the divisor
\* control_cost_per_retained of the cost-savings card is never zero.
C17_EmbeddedNeverEmpty ==
    /\ min_months \in {10 * k : k \in 0..12}
    /\ metrics # None
    /\ metrics.training_stayed = 21
    /\ metrics.control_stayed = 9
    /\ ~page.notice
    /\ Finite(metrics.control_cost_per_retained)
    /\ ~IsZero(metrics.control_cost_per_retained)
    /\ Len(page.cards) = 4
    /\ page.exception = "none"

\* The slider at its maximum, 12: only the records at exactly 12.0 are left.
C17_Witness ==
    /\ cached = load_data
    /\ min_months = 120
    /\ metrics # None
    /\ metrics.training_total = 21
    /\ metrics.control_total = 9
    /\ metrics.control_cost_per_retained = <<1750, 1>>

ReachedOf(c) == {i \in 1..Len(cached) : cached[i].Company = c
                                        /\ cached[i].Months_Retained >= 120}

AllReached(group) == \A i \in 1..Len(group) : group[i].Reached_12mo

\* C18: for min_retention from 0 to 12 the filter removes no record that reached
\* the threshold: training_stayed and control_stayed are the counts of the
\* unfiltered table; between two calls the one with the higher min_retention has
\* retention rates no lower; and at min_retention = 12 every non-empty group
\* holds reached records only, its rate being exactly 100.
C18_FilterKeepsReached ==
    min_months <= 120 =>
        /\ Reaching(frame.training_df) = Cardinality(ReachedOf("Training"))
        /\ Reaching(frame.control_df) = Cardinality(ReachedOf("No Training"))
        /\ metrics # None =>
            /\ metrics.training_stayed = Cardinality(ReachedOf("Training"))
            /\ metrics.control_stayed = Cardinality(ReachedOf("No Training"))
        /\ (/\ prev # None /\ prev.min_months <= min_months
            /\ prev.metrics # None /\ metrics # None) =>
            /\ metrics.training_stayed = prev.metrics.training_stayed
            /\ metrics.control_stayed = prev.metrics.control_stayed
            /\ ~RatLess(metrics.retention.training_value,
                        prev.metrics.retention.training_value)
            /\ ~RatLess(metrics.retention.control_value,
                        prev.metrics.retention.control_value)
        /\ min_months = 120 =>
            /\ AllReached(frame.training_df) /\ AllReached(frame.control_df)
            /\ metrics # None =>
                /\ metrics.retention.training_value = <<100, 1>>
                /\ metrics.retention.control_value = <<100, 1>>

\* The slider raised to 12 after a run that had a lower rate in both groups.
C18_Witness ==
    /\ min_months = 120
    /\ prev # None /\ prev.min_months < 120
    /\ prev.metrics # None /\ metrics # None
    /\ RatLess(prev.metrics.retention.training_value, <<100, 1>>)
    /\ RatLess(prev.metrics.retention.control_value, <<100, 1>>)
    /\ metrics.training_total < prev.metrics.training_total
    /\ metrics.retention.training_value = <<100, 1>>

====
